---- MODULE Spec2Model ----
(***************************************************************************)
(* Model of the deduction game's session state machine and scoring engine  *)
(* (src/app.py) together with the persistence operations it calls          *)
(* (src/database.py) and the fallback scenario (src/prompts.py).           *)
(*                                                                         *)
(* Conventions                                                             *)
(*  - A Python value that may be absent (dict key not set, None) is a      *)
(*    sequence of length 0 or 1: None == <<>>, Some(x) == <<x>>.           *)
(*  - Python floats that the code rounds with round(x, 1) are carried as   *)
(*    exact rationals and reported in TENTHS (an integer t stands for      *)
(*    t/10).  An exact tie (x.x5) is resolved by the binary representation *)
(*    of the float, which arithmetic on rationals cannot see; the rounding *)
(*    direction of a tie is therefore an input of the model (tie flags).   *)
(*  - The text-generation collaborator is an input: each call's reply is   *)
(*    drawn from a small set of reply shapes.                              *)
(***************************************************************************)
EXTENDS Integers, Sequences, FiniteSets, TLC

VARIABLES
    games,            \* app.py: games, the in-memory session registry
    daily_scenarios,  \* database.py: table daily_scenarios (date -> scenario)
    db_sessions,      \* database.py: table game_sessions (session_id -> row)
    db_questions,     \* database.py: table questions (rows in insertion order)
    issued,           \* session ids uuid4 has produced so far
    known,            \* session ids a client has been handed by /start
    now,              \* the wall clock, in seconds
    response,         \* the HTTP response of the last request
    score_calls,      \* question_count of every calculate_final_score call
    score_in,         \* scoring engine on its own: the input (n, sum)
    score_out,        \* scoring engine on its own: the result
    gen_in,           \* generate_scenario on its own: the collaborator's replies
    gen_calls,        \* generate_scenario on its own: collaborator calls made
    gen_out,          \* generate_scenario on its own: the scenario returned
    pending           \* requests in flight: each handler thread's position and locals

vars == <<games, daily_scenarios, db_sessions, db_questions, issued, known,
          now, response, score_calls, score_in, score_out, gen_in, gen_calls,
          gen_out, pending>>

session_vars == <<games, daily_scenarios, db_sessions, db_questions, issued,
                  known, now, response, score_calls>>

score_vars == <<score_in, score_out>>

gen_vars == <<gen_in, gen_calls, gen_out>>

(***************************************************************************)
(* Program constants                                                       *)
(***************************************************************************)
MAX_QUESTIONS == 50

MAX_HINTS == 3

max_retries == 3

SecondsPerDay == 86400

GAME_RETENTION_TIME == 3600

GAME_CLEANUP_INTERVAL == 600

(***************************************************************************)
(* Bounds of the model                                                     *)
(***************************************************************************)
\* Spec: requests that could append a record are issued while the session
\* holds fewer than MaxRecords records.
MaxRecords == 2

\* Spec: the clock advances at most MaxTicks times, TickStep seconds each.
MaxTicks == 1

\* ScoreSpec: question counts 1..MaxCount.
MaxCount == 26

\* CapSpec: hints are requested while the session holds fewer than
\* CapHintWindow records.
CapHintWindow == 3

\* AccuseRaceSpec: the clock advances at most CleanTicks times, TickStep
\* seconds each.
CleanTicks == 3

TickStep == 1800

\* DaySpec: the server is CallSeconds before midnight at the start, and the
\* clock advances at most DayTicks times, CallSeconds each (the time a
\* scenario generation or a database call may take).
CallSeconds == 30

DayTicks == 2

\* SessionRaceSpec: requests are issued while the session holds fewer than
\* RaceRecords records, and the clock advances at most RaceTicks times, by
\* one unit of its resolution each.
RaceRecords == 3

RaceTicks == 1

(***************************************************************************)
(* Optional values                                                         *)
(***************************************************************************)
None == <<>>

Some(x) == <<x>>

RECURSIVE SumQuality(_)
\* sum(q['quality_score'] for q in game['questions'])
SumQuality(qs) ==
    IF qs = <<>> THEN 0 ELSE Head(qs).quality_score + SumQuality(Tail(qs))

(***************************************************************************)
(* Scoring engine: calculate_final_score                                   *)
(***************************************************************************)
\* round(x, 1) of the non-negative rational x = num/den, in tenths.  A tie is
\* rounded up iff `up`.
Round1(num, den, up) ==
    LET scaled == 10 * num
        fl     == scaled \div den
        rem    == scaled - fl * den
    IN  IF 2 * rem > den THEN fl + 1
        ELSE IF 2 * rem < den THEN fl
        ELSE IF up THEN fl + 1 ELSE fl

\* The directions in which the three round(.., 1) calls resolve a tie.
TieFlags == [total : BOOLEAN, quality : BOOLEAN, avg : BOOLEAN]

\* Mutant: the steep decay is not floored at 0.
CountScoreHalvesNoFloor(question_count) ==
    IF question_count <= 10 THEN 100
    ELSE IF question_count <= 20 THEN 100 - ((question_count - 10) * 5)
    ELSE 50 - ((question_count - 20) * 10)

\* Mutant: the steep decay starts again from 50 instead of 25.
CountScoreHalvesJump(question_count) ==
    IF question_count <= 10 THEN 100
    ELSE IF question_count <= 20 THEN 100 - ((question_count - 10) * 5)
    ELSE IF 100 - ((question_count - 20) * 10) > 0
         THEN 100 - ((question_count - 20) * 10)
         ELSE 0

\* count_score, in halves of a point (the code's 2.5 is 5 halves).
CountScoreHalves(question_count) ==
    IF question_count <= 10 THEN 100
    ELSE IF question_count <= 20 THEN 100 - ((question_count - 10) * 5)
    ELSE IF 50 - ((question_count - 20) * 10) > 0
         THEN 50 - ((question_count - 20) * 10)
         ELSE 0

\* The grade of the (unrounded) total_score = tn/td.
Grade(tn, td) ==
    IF tn >= 90 * td THEN "S"
    ELSE IF tn >= 80 * td THEN "A"
    ELSE IF tn >= 70 * td THEN "B"
    ELSE IF tn >= 60 * td THEN "C"
    ELSE "D"

\* avg_quality_score is the rational avg.num / avg.den.
calculate_final_score(question_count, avg, ties) ==
    LET qn == 50 * avg.num             \* quality_score = 50 * (avg / 100)
        qd == 100 * avg.den
        cn == CountScoreHalves(question_count)
        tn == 2 * qn + cn * qd         \* total_score = quality + count
        td == 2 * qd
    IN  [ total_score    |-> Round1(tn, td, ties.total),
          quality_score  |-> Round1(qn, qd, ties.quality),
          count_score    |-> Round1(cn, 2, FALSE),
          grade          |-> Grade(tn, td),
          question_count |-> question_count,
          avg_quality    |-> Round1(avg.num, avg.den, ties.avg) ]

(***************************************************************************)
(* Scenario generation: generate_scenario, DEFAULT_SCENARIO                *)
(***************************************************************************)
\* A scenario keeps what the session logic reads: the culprit, the roster
\* (names in order) and which keys the JSON object carries:
\*   "all"        every key the handlers read
\*   "no_private" an NPC lacks 'secret' or 'alibi' (read by /ask only)
\*   "no_display" 'title' is missing (read by /start and /ask)
DEFAULT_SCENARIO ==
    [culprit |-> "Lee", npcs |-> <<"Lee", "Park", "Choi">>, keys |-> "all"]

\* Replies of the collaborator to the scenario prompt.
\*   kind "exception": generate_content raises
\*   kind "malformed": the text is not JSON (json.JSONDecodeError)
\*   kind "json":      a JSON object; has_keys says whether it carries
\*                     'npcs' and 'culprit'
ScenarioReplies ==
    { [kind |-> "exception", has_keys |-> FALSE, culprit |-> "", npcs |-> <<>>, keys |-> "all"],
      [kind |-> "malformed", has_keys |-> FALSE, culprit |-> "", npcs |-> <<>>, keys |-> "all"],
      [kind |-> "json", has_keys |-> FALSE, culprit |-> "", npcs |-> <<>>, keys |-> "all"],
      [kind |-> "json", has_keys |-> TRUE, culprit |-> "Bob", npcs |-> <<>>, keys |-> "all"],
      [kind |-> "json", has_keys |-> TRUE, culprit |-> "Bob", npcs |-> <<"Ann", "Bob", "Cho">>, keys |-> "all"],
      [kind |-> "json", has_keys |-> TRUE, culprit |-> "Zed", npcs |-> <<"Ann", "Bob", "Cho">>, keys |-> "all"],
      [kind |-> "json", has_keys |-> TRUE, culprit |-> "Bob", npcs |-> <<"Ann", "Bob", "Cho">>, keys |-> "no_private"],
      [kind |-> "json", has_keys |-> TRUE, culprit |-> "Bob", npcs |-> <<"Ann", "Bob", "Cho">>, keys |-> "no_display"] }

InRoster(name, npcs) == \E i \in 1..Len(npcs) : npcs[i] = name

\* Mutant: the culprit the collaborator names is kept, whatever the roster.
AttemptScenarioNoRepair(reply) ==
    IF reply.kind # "json" \/ ~reply.has_keys THEN None
    ELSE Some([culprit |-> reply.culprit, npcs |-> reply.npcs, keys |-> reply.keys])

\* One pass of the retry loop's body: Some(scenario) when the attempt returns,
\* None when it raises (JSONDecodeError, KeyError, IndexError, any exception).
AttemptScenario(reply) ==
    IF reply.kind # "json" \/ ~reply.has_keys THEN None
    ELSE IF InRoster(reply.culprit, reply.npcs)
         THEN Some([culprit |-> reply.culprit, npcs |-> reply.npcs, keys |-> reply.keys])
    ELSE IF reply.npcs = <<>> THEN None            \* npc_names[0]: IndexError
    ELSE Some([culprit |-> reply.npcs[1], npcs |-> reply.npcs, keys |-> reply.keys])

\* Mutant: the loop gives up one attempt early.
retries_exhausted_early(attempt) == attempt >= max_retries - 1

\* `for attempt in range(max_retries)`: the loop is over.
retries_exhausted(attempt) == attempt >= max_retries

RECURSIVE GenerateFrom(_, _)
\* The loop from attempt number `attempt` (0-based) on; replies[i] is the
\* collaborator's reply to the i-th call, were it made.
GenerateFrom(replies, attempt) ==
    IF retries_exhausted(attempt) THEN [scenario |-> DEFAULT_SCENARIO, calls |-> attempt]
    ELSE LET got == AttemptScenario(replies[attempt + 1])
         IN  IF got # None THEN [scenario |-> got[1], calls |-> attempt + 1]
             ELSE GenerateFrom(replies, attempt + 1)

\* generate_scenario(): the scenario returned and the number of collaborator
\* calls made.
generate_scenario(replies) == GenerateFrom(replies, 0)

(***************************************************************************)
(* Collaborator wrappers used by /ask                                      *)
(***************************************************************************)
\* Replies of the collaborator to the evaluation prompt.
\*   "exception"  generate_content raises
\*   "malformed"  the text is not JSON
\*   "no_score"   a JSON object without 'score'
\*   "non_number" 'score' is not a number (min/max raise TypeError)
\*   "number"     'score' is the integer `score`
\*   "nan"        'score' is NaN (json.loads reads the literal NaN)
EvalReply(kind, score) == [kind |-> kind, score |-> score]

EvalReplies ==
    { EvalReply("exception", 0), EvalReply("malformed", 0),
      EvalReply("no_score", 0), EvalReply("non_number", 0),
      EvalReply("nan", 0) }
    \cup { EvalReply("number", n) : n \in {-5, 0, 1, 80, 100, 150} }

Min(a, b) == IF a <= b THEN a ELSE b

Max(a, b) == IF a >= b THEN a ELSE b

\* Mutant: the score is passed on as the collaborator gave it.
evaluate_question_quality_unclamped(reply) ==
    IF reply.kind = "number" THEN [score |-> reply.score, reasoning |-> "model"]
    ELSE IF reply.kind \in {"no_score", "nan"} THEN [score |-> 50, reasoning |-> "model"]
    ELSE [score |-> 50, reasoning |-> "fallback"]

\* evaluate_question_quality: never raises.
evaluate_question_quality(reply) ==
    IF reply.kind = "number"
    THEN [score |-> Max(1, Min(100, reply.score)), reasoning |-> "model"]
    ELSE IF reply.kind = "nan"
    THEN \* min(100, nan) is 100 (nan < 100 is False), max(1, 100) is 100
         [score |-> 100, reasoning |-> "model"]
    ELSE IF reply.kind = "no_score"
    THEN [score |-> Max(1, Min(100, 50)), reasoning |-> "model"]
    ELSE [score |-> 50, reasoning |-> "fallback"]

\* Replies of the collaborator to a role-play or hint prompt.
TextReplies == {"text", "exception"}

APOLOGY == "apology"

\* Mutant: the failure is passed on as the answer instead of the apology.
generate_npc_response_unrecovered(reply) ==
    IF reply = "exception" THEN "exception" ELSE "answer"

\* generate_npc_response: the answer text; never raises once the prompt is
\* built.
generate_npc_response(reply) ==
    IF reply = "exception" THEN APOLOGY ELSE "answer"

(***************************************************************************)
(* Persistence (database.py).  Every write is best effort: `ok` says       *)
(* whether the statement went through.                                     *)
(***************************************************************************)
DbFlags == [lookup : BOOLEAN, save : BOOLEAN, write : BOOLEAN]

DbAllOk == [lookup |-> TRUE, save |-> TRUE, write |-> TRUE]

\* save_daily_scenario: INSERT OR REPLACE.
save_daily_scenario(table, date, scenario, ok) ==
    IF ok
    THEN [d \in DOMAIN table \cup {date} |-> IF d = date THEN scenario ELSE table[d]]
    ELSE table

\* create_game_session: INSERT of a fresh row.
create_game_session(table, session_id, scenario_date, culprit, start, ok) ==
    IF ok /\ session_id \notin DOMAIN table
    THEN [s \in DOMAIN table \cup {session_id} |->
            IF s = session_id
            THEN [ scenario_date   |-> scenario_date,
                   culprit         |-> culprit,
                   start_time      |-> start,
                   end_time        |-> None,
                   is_finished     |-> FALSE,
                   solved          |-> FALSE,
                   accused_npc     |-> None,
                   questions_count |-> 0,
                   hints_used      |-> 0,
                   score           |-> None ]
            ELSE table[s]]
    ELSE table

\* finish_game_session: UPDATE ... WHERE session_id = ? (no row, no effect).
finish_game_session(table, session_id, solved, accused_npc, questions_count, hints_used, score_info, end, ok) ==
    IF ok /\ session_id \in DOMAIN table
    THEN [table EXCEPT ![session_id] =
            [@ EXCEPT !.end_time        = Some(end),
                      !.is_finished     = TRUE,
                      !.solved          = solved,
                      !.accused_npc     = Some(accused_npc),
                      !.questions_count = questions_count,
                      !.hints_used      = hints_used,
                      !.score           = Some(score_info)]]
    ELSE table

\* save_question: INSERT of one row.
save_question(rows, session_id, record, ok) ==
    IF ok
    THEN Append(rows, [ session_id    |-> session_id,
                        npc_name      |-> record.npc_name,
                        question      |-> record.question,
                        answer        |-> record.answer,
                        quality_score |-> record.quality_score,
                        reasoning     |-> record.reasoning,
                        timestamp     |-> record.timestamp ])
    ELSE rows

(***************************************************************************)
(* Responses                                                               *)
(***************************************************************************)
\* jsonify(...), status: the fields of 'data' the handlers fill in are
\* optional values.
Reply(op, session_id, success, status, error) ==
    [ op              |-> op,
      session_id      |-> session_id,
      success         |-> success,
      status          |-> status,
      error           |-> error,
      is_correct      |-> None,
      culprit         |-> None,
      score           |-> None,
      quality_score   |-> None,
      answer          |-> None,
      total_questions |-> None,
      hints_remaining |-> None,
      is_finished     |-> None,
      exposes         |-> {} ]

NoReply == Reply("none", "", TRUE, 0, "")

\* The keys of a response's 'data' that carry fields of the session or of its
\* scenario ("npcs.x": field x of every NPC).
\* Mutant: /start returns the scenario whole.
whole_scenario_fields ==
    {"session_id", "title", "scenario", "victim", "location", "time", "culprit",
     "npcs.name", "npcs.role", "npcs.personality", "npcs.secret", "npcs.alibi",
     "npcs.relationship", "key_evidence"}

\* start_game: public_scenario
public_scenario_fields ==
    {"session_id", "title", "scenario", "victim", "location", "time",
     "npcs.name", "npcs.role", "npcs.personality", "npcs.relationship",
     "key_evidence"}

\* get_game_state: data
game_state_fields ==
    {"session_id", "title", "scenario", "victim", "location", "time",
     "total_questions", "is_finished", "final_score"}

\* ask_question: data
ask_fields == {"answer", "quality_score", "reasoning", "total_questions"}

\* get_hint: data
hint_fields == {"hint", "penalty", "hints_remaining"}

\* accuse_culprit: data of a correct and of a wrong accusation
solved_fields == {"is_correct", "culprit", "score", "message"}

wrong_fields == {"is_correct", "message", "total_questions"}

\* datetime.now().date().isoformat(), as a day number.
DateOf(t) == t \div SecondsPerDay

(***************************************************************************)
(* Request handlers (app.py).  Each action is one request handled from     *)
(* start to finish.                                                        *)
(***************************************************************************)
SessionIds == {"s1"}

\* A request that is answered without touching any session or table.
Rejected(op, session_id, status, error) ==
    /\ response' = Reply(op, session_id, FALSE, status, error)
    /\ UNCHANGED <<games, db_sessions, db_questions, score_calls>>

\* games[session_id] = game
PutGame(session_id, game) ==
    [s \in DOMAIN games \cup {session_id} |->
        IF s = session_id THEN game ELSE games[s]]

\* The records of a session that are not hints / that are hints.
NonHintCount(questions) ==
    Cardinality({i \in 1..Len(questions) : questions[i].npc_name # "SYSTEM"})

HintCount(questions) ==
    Cardinality({i \in 1..Len(questions) : questions[i].npc_name = "SYSTEM"})

\* Mutant: the handlers forget to test is_finished.
finished_check_missing(game) == FALSE

\* ask_question: `if game['is_finished']`, accuse_culprit: the same test.
finished_check(game) == game.is_finished

\* Mutant: off by one, `>` for `>=`.
question_limit_off_by_one(game) == Len(game.questions) > MAX_QUESTIONS

\* ask_question: `if len(game['questions']) >= MAX_QUESTIONS`
question_limit_reached(game) == Len(game.questions) >= MAX_QUESTIONS

\* Mutant: off by one, `>` for `>=`.
hint_limit_off_by_one(game) == game.hints_used > MAX_HINTS

\* Mutant: hints are refused on a finished session as well.
hint_limit_or_finished(game) == game.hints_used >= MAX_HINTS \/ game.is_finished

\* get_hint: `if game['hints_used'] >= MAX_HINTS`
hint_limit_reached(game) == game.hints_used >= MAX_HINTS

\* Mutant: every accusation counts as correct.
is_correct_always(suspect_name, game) == TRUE

\* accuse_culprit: `is_correct = suspect_name == game['culprit']`
is_correct(suspect_name, game) == suspect_name = game.culprit

\* Mutant: hint records are left out of the count.
question_count_without_hints(game) == NonHintCount(game.questions)

\* accuse_culprit: `question_count = len(game['questions'])`
question_count_of(game) == Len(game.questions)

\* Mutant: the guard against an empty session is gone.
no_questions_unchecked(question_count) == FALSE

\* accuse_culprit: `if question_count == 0`
no_questions(question_count) == question_count = 0

\* accuse_culprit: `sum(q['quality_score'] ...) / question_count`, a rational;
\* None when the division raises ZeroDivisionError.
average_quality(game, question_count) ==
    IF question_count = 0 THEN None
    ELSE Some([num |-> SumQuality(game.questions), den |-> question_count])

\* Mutant: the finishing accusation forgets to stamp end_time.
finished_game_unstamped(game, score_info, t_now) ==
    [game EXCEPT !.is_finished = TRUE, !.final_score = Some(score_info)]

\* accuse_culprit: is_finished, end_time and final_score of the finished game
finished_game(game, score_info, t_now) ==
    [game EXCEPT !.is_finished = TRUE,
                 !.end_time    = Some(t_now),
                 !.final_score = Some(score_info)]

\* get_daily_scenario() and start_game(): POST /start
start_game(session_id, replies, db) ==
    /\ session_id \notin issued
    /\ issued' = issued \cup {session_id}
    /\ UNCHANGED <<db_questions, now, score_calls>>
    /\ LET today    == DateOf(now)
           hit      == today \in DOMAIN daily_scenarios
           scenario == IF hit THEN daily_scenarios[today]
                       ELSE generate_scenario(replies).scenario
           game     == [ session_id    |-> session_id,
                         scenario      |-> scenario,
                         scenario_date |-> DateOf(now),
                         culprit       |-> scenario.culprit,
                         npcs          |-> scenario.npcs,
                         questions     |-> <<>>,
                         hints_used    |-> 0,
                         start_time    |-> now,
                         is_finished   |-> FALSE,
                         end_time      |-> None,
                         final_score   |-> None ]
       IN  IF ~db.lookup
           THEN \* db.get_daily_scenario raises; caught by except Exception
                /\ response' = Reply("start", session_id, FALSE, 500, "cannot_start")
                /\ UNCHANGED <<games, daily_scenarios, db_sessions, known>>
           ELSE /\ daily_scenarios' =
                       IF hit THEN daily_scenarios
                       ELSE save_daily_scenario(daily_scenarios, today, scenario, db.save)
                /\ games' = PutGame(session_id, game)
                /\ db_sessions' = create_game_session(db_sessions, session_id,
                                       DateOf(now), scenario.culprit, now, db.write)
                /\ IF scenario.keys = "no_display"
                   THEN \* scenario['title']: KeyError, caught by except Exception
                        /\ response' = Reply("start", session_id, FALSE, 500, "cannot_start")
                        /\ UNCHANGED known
                   ELSE /\ response' = [Reply("start", session_id, TRUE, 200, "") EXCEPT
                                           !.exposes = public_scenario_fields]
                        /\ known' = known \cup {session_id}

\* ask_question(): POST /ask
ask_question(session_id, npc_name, question, eval_reply, npc_reply, db_ok) ==
    /\ UNCHANGED <<daily_scenarios, issued, known, now>>
    /\ IF session_id = "" \/ npc_name = "" \/ question = ""
       THEN Rejected("ask", session_id, 400, "missing")
       ELSE IF session_id \notin DOMAIN games
       THEN Rejected("ask", session_id, 404, "invalid_session")
       ELSE LET game == games[session_id] IN
            IF finished_check(game)
            THEN Rejected("ask", session_id, 400, "finished")
            ELSE IF question_limit_reached(game)
            THEN Rejected("ask", session_id, 400, "max_questions")
            ELSE IF ~InRoster(npc_name, game.npcs)
            THEN Rejected("ask", session_id, 404, "unknown_npc")
            ELSE IF game.scenario.keys # "all"
            THEN \* KeyError building the prompts, caught by except KeyError
                 Rejected("ask", session_id, 400, "missing")
            ELSE LET evaluation == evaluate_question_quality(eval_reply)
                     answer     == generate_npc_response(npc_reply)
                     record     == [ npc_name      |-> npc_name,
                                     question      |-> question,
                                     answer        |-> answer,
                                     quality_score |-> evaluation.score,
                                     reasoning     |-> evaluation.reasoning,
                                     timestamp     |-> now ]
                     after      == Append(game.questions, record)
                 IN  /\ games' = [games EXCEPT ![session_id].questions = after]
                     /\ db_questions' = save_question(db_questions, session_id, record, db_ok)
                     /\ response' = [Reply("ask", session_id, TRUE, 200, "") EXCEPT
                                        !.answer          = Some(answer),
                                        !.quality_score   = Some(evaluation.score),
                                        !.total_questions = Some(Len(after)),
                                        !.exposes         = ask_fields]
                     /\ UNCHANGED <<db_sessions, score_calls>>

\* get_hint(): POST /hint
\* Mutant: a failed hint generation is treated as a hint.
hint_failed_never(hint_reply) == FALSE

\* model.generate_content raising inside get_hint: no handler of its own, so
\* the route's except Exception answers 500 before anything is recorded.
hint_failed(hint_reply) == hint_reply = "exception"

get_hint(session_id, hint_reply) ==
    /\ UNCHANGED <<daily_scenarios, issued, known, now>>
    /\ IF session_id = ""
       THEN Rejected("hint", session_id, 400, "missing")
       ELSE IF session_id \notin DOMAIN games
       THEN Rejected("hint", session_id, 404, "invalid_session")
       ELSE LET game == games[session_id] IN
            IF hint_limit_reached(game)
            THEN Rejected("hint", session_id, 400, "max_hints")
            ELSE IF hint_failed(hint_reply)
            THEN Rejected("hint", session_id, 500, "hint_error")
            ELSE LET hint_record == [ npc_name      |-> "SYSTEM",
                                      question      |-> "[hint]",
                                      answer        |-> "hint",
                                      quality_score |-> 0,
                                      reasoning     |-> "hint",
                                      timestamp     |-> now ]
                 IN  /\ games' = [games EXCEPT
                            ![session_id].questions  = Append(@, hint_record),
                            ![session_id].hints_used = @ + 1]
                     /\ response' = [Reply("hint", session_id, TRUE, 200, "") EXCEPT
                            !.answer          = Some("hint"),
                            !.hints_remaining = Some(MAX_HINTS - (game.hints_used + 1)),
                            !.exposes         = hint_fields]
                     /\ UNCHANGED <<db_sessions, db_questions, score_calls>>

\* accuse_culprit(): POST /accuse
accuse_culprit(session_id, suspect_name, db_ok) ==
    /\ UNCHANGED <<daily_scenarios, issued, known, now>>
    /\ IF session_id = "" \/ suspect_name = ""
       THEN Rejected("accuse", session_id, 400, "missing")
       ELSE IF session_id \notin DOMAIN games
       THEN Rejected("accuse", session_id, 404, "invalid_session")
       ELSE LET game == games[session_id] IN
            IF finished_check(game)
            THEN Rejected("accuse", session_id, 400, "finished")
            ELSE IF ~is_correct(suspect_name, game)
            THEN \* wrong answer: the game goes on
                 /\ response' = [Reply("accuse", session_id, TRUE, 200, "") EXCEPT
                        !.is_correct      = Some(FALSE),
                        !.total_questions = Some(Len(game.questions)),
                        !.exposes         = wrong_fields]
                 /\ UNCHANGED <<games, db_sessions, db_questions, score_calls>>
            ELSE LET question_count == question_count_of(game)
                     avg            == average_quality(game, question_count)
                 IN
                 IF no_questions(question_count)
                 THEN Rejected("accuse", session_id, 400, "no_questions")
                 ELSE IF avg = None
                 THEN \* ZeroDivisionError, caught by except Exception
                      Rejected("accuse", session_id, 500, "accuse_error")
                 ELSE \E ties \in TieFlags :
                      LET score_info == calculate_final_score(question_count, avg[1], ties)
                      IN  /\ score_calls' = score_calls \cup {question_count}
                          /\ games' = [games EXCEPT
                                 ![session_id] = finished_game(game, score_info, now)]
                          /\ db_sessions' = finish_game_session(db_sessions, session_id,
                                 TRUE, suspect_name, question_count, game.hints_used,
                                 score_info, now, db_ok)
                          /\ response' = [Reply("accuse", session_id, TRUE, 200, "") EXCEPT
                                 !.is_correct = Some(TRUE),
                                 !.culprit    = Some(game.culprit),
                                 !.score      = Some(score_info),
                                 !.exposes    = solved_fields]
                          /\ UNCHANGED db_questions

\* get_game_state(): GET /game/<session_id>
get_game_state(session_id) ==
    /\ UNCHANGED <<daily_scenarios, issued, known, now>>
    /\ IF session_id \notin DOMAIN games
       THEN Rejected("state", session_id, 404, "invalid_session")
       ELSE LET game == games[session_id] IN
            IF game.scenario.keys = "no_display"
            THEN \* game['scenario']['title']: KeyError, not caught; the
                 \* framework answers 500
                 Rejected("state", session_id, 500, "internal")
            ELSE /\ response' = [Reply("state", session_id, TRUE, 200, "") EXCEPT
                        !.total_questions = Some(Len(game.questions)),
                        !.is_finished     = Some(game.is_finished),
                        !.score           = game.final_score,
                        !.exposes         = game_state_fields]
                 /\ UNCHANGED <<games, db_sessions, db_questions, score_calls>>

\* The wall clock moves on.
Tick ==
    /\ now < MaxTicks * TickStep
    /\ now' = now + TickStep
    /\ UNCHANGED <<games, daily_scenarios, db_sessions, db_questions, issued,
                   known, response, score_calls>>

(***************************************************************************)
(* Spec: one player's session, requests handled one at a time.             *)
(***************************************************************************)
Init ==
    /\ games = <<>>
    /\ daily_scenarios = <<>>
    /\ db_sessions = <<>>
    /\ db_questions = <<>>
    /\ issued = {}
    /\ known = {}
    /\ now = 0
    /\ response = NoReply
    /\ score_calls = {}
    /\ score_in = [n |-> 1, sum |-> 0]
    /\ score_out = None
    /\ gen_in = <<>>
    /\ gen_calls = 0
    /\ gen_out = None
    /\ pending = <<>>

\* Session ids a request may carry: the ones handed out and a made-up one.
RequestIds == known \cup {"stranger"}

\* The roster of a live session.
Roster(session_id) ==
    IF session_id \in DOMAIN games
    THEN {games[session_id].npcs[i] : i \in 1..Len(games[session_id].npcs)}
    ELSE {}

\* Names an accusation may carry: the roster and a made-up one.
AccuseNames(session_id) == {"Nobody"} \cup Roster(session_id)

\* Names an ask may carry: the first NPC of the roster and a made-up one.
AskNames(session_id) ==
    {"Nobody"} \cup
    (IF session_id \in DOMAIN games /\ games[session_id].npcs # <<>>
     THEN {games[session_id].npcs[1]} ELSE {})

Questions == {"q"}

\* Spec draws the collaborator's replies from these.
SpecScenarioReplies ==
    {r \in ScenarioReplies : r.kind = "exception" \/ (r.npcs # <<>> /\ r.keys = "all")}

\* The replies to the two calls of one ask: <<evaluation, role play>>.  The
\* collaborator answers both calls (with a score in range or out of range) or
\* is down for both.
SpecAskReplies ==
    { <<EvalReply("number", 80), "text">>,
      <<EvalReply("number", 0), "text">>,
      <<EvalReply("exception", 0), "exception">> }

\* The session named holds fewer than MaxRecords records (or does not exist).
Short(session_id) ==
    session_id \in DOMAIN games => Len(games[session_id].questions) < MaxRecords

Start ==
    /\ \E session_id \in SessionIds, replies \in [1..max_retries -> SpecScenarioReplies] :
          start_game(session_id, replies, DbAllOk)
    /\ UNCHANGED <<score_vars, gen_vars, pending>>

Ask ==
    /\ \E session_id \in RequestIds, replies \in SpecAskReplies :
          /\ Short(session_id)
          /\ \E npc_name \in AskNames(session_id), question \in Questions :
                ask_question(session_id, npc_name, question, replies[1], replies[2], TRUE)
    /\ UNCHANGED <<score_vars, gen_vars, pending>>

Hint ==
    /\ \E session_id \in RequestIds, hint_reply \in TextReplies :
          /\ \/ Short(session_id)
             \/ /\ session_id \in DOMAIN games
                /\ games[session_id].hints_used >= MAX_HINTS
          /\ get_hint(session_id, hint_reply)
    /\ UNCHANGED <<score_vars, gen_vars, pending>>

Accuse ==
    /\ \E session_id \in RequestIds :
          \E suspect_name \in AccuseNames(session_id) :
             accuse_culprit(session_id, suspect_name, TRUE)
    /\ UNCHANGED <<score_vars, gen_vars, pending>>

GetState ==
    /\ \E session_id \in RequestIds : get_game_state(session_id)
    /\ UNCHANGED <<score_vars, gen_vars, pending>>

Clock == Tick /\ UNCHANGED <<score_vars, gen_vars, pending>>

Next == Start \/ Ask \/ Hint \/ Accuse \/ GetState \/ Clock

Spec == Init /\ [][Next]_vars

(***************************************************************************)
(* CapSpec: one session driven to the question and hint limits.  The       *)
(* collaborator is down for scenario generation and evaluation (fallback   *)
(* scenario, fallback score), the clock stands still, and the player asks  *)
(* for hints early in the session.                                         *)
(***************************************************************************)
AllFail == [i \in 1..max_retries |-> CHOOSE r \in ScenarioReplies : r.kind = "exception"]

CapStart ==
    /\ \E session_id \in SessionIds : start_game(session_id, AllFail, DbAllOk)
    /\ UNCHANGED <<score_vars, gen_vars, pending>>

CapAsk ==
    /\ \E session_id \in RequestIds :
          \E npc_name \in AskNames(session_id), question \in Questions :
             ask_question(session_id, npc_name, question,
                          EvalReply("exception", 0), "text", TRUE)
    /\ UNCHANGED <<score_vars, gen_vars, pending>>

CapHint ==
    /\ \E session_id \in RequestIds, hint_reply \in TextReplies :
          /\ session_id \in DOMAIN games =>
                \/ Len(games[session_id].questions) < CapHintWindow
                \/ games[session_id].hints_used >= MAX_HINTS
          /\ get_hint(session_id, hint_reply)
    /\ UNCHANGED <<score_vars, gen_vars, pending>>

CapAccuse ==
    /\ \E session_id \in RequestIds :
          \E suspect_name \in AccuseNames(session_id) :
             accuse_culprit(session_id, suspect_name, TRUE)
    /\ UNCHANGED <<score_vars, gen_vars, pending>>

CapNext == CapStart \/ CapAsk \/ CapHint \/ CapAccuse

CapSpec == Init /\ [][CapNext]_vars

(***************************************************************************)
(* ScoreSpec: the scoring engine on its own, applied to every question     *)
(* count 1..MaxCount and every sum of integer quality scores 0..100.       *)
(***************************************************************************)
ScoreInit ==
    /\ games = <<>>
    /\ daily_scenarios = <<>>
    /\ db_sessions = <<>>
    /\ db_questions = <<>>
    /\ issued = {}
    /\ known = {}
    /\ now = 0
    /\ response = NoReply
    /\ score_calls = {}
    /\ score_in \in {input \in [n : 1..MaxCount, sum : 0..(100 * MaxCount)] :
                        input.sum <= 100 * input.n}
    /\ score_out = None
    /\ gen_in = <<>>
    /\ gen_calls = 0
    /\ gen_out = None
    /\ pending = <<>>

Score ==
    /\ score_out = None
    /\ \E ties \in TieFlags :
          score_out' = Some(calculate_final_score(score_in.n,
                               [num |-> score_in.sum, den |-> score_in.n], ties))
    /\ UNCHANGED <<score_in, session_vars, gen_vars, pending>>

ScoreSpec == ScoreInit /\ [][Score]_vars

(***************************************************************************)
(* Requests in flight.  The server handles each request on a thread of its *)
(* own and takes no lock: a handler can be overtaken wherever it waits for *)
(* the collaborator or the database.  pending[t] holds the position (pc)   *)
(* and the local variables of the handler running on thread t.             *)
(***************************************************************************)
Threads == {"t1", "t2"}

RaceSessionIds == {"s1", "s2"}

Idle(t) == t \notin DOMAIN pending

SetPending(t, locals) ==
    [x \in DOMAIN pending \cup {t} |-> IF x = t THEN locals ELSE pending[x]]

DropPending(t) == [x \in DOMAIN pending \ {t} |-> pending[x]]

At(t, op, pc) == t \in DOMAIN pending /\ pending[t].op = op /\ pending[t].pc = pc

\* start_game and get_daily_scenario up to the lookup: uuid4(), today,
\* db.get_daily_scenario(today).
start_lookup(t, session_id) ==
    /\ Idle(t)
    /\ session_id \notin issued
    /\ issued' = issued \cup {session_id}
    /\ LET today == DateOf(now)
           hit   == today \in DOMAIN daily_scenarios
       IN  pending' = SetPending(t,
              [ op         |-> "start",
                pc         |-> IF hit THEN "create" ELSE "generate",
                session_id |-> session_id,
                today      |-> today,
                scenario   |-> IF hit THEN Some(daily_scenarios[today]) ELSE None ])
    /\ UNCHANGED <<games, daily_scenarios, db_sessions, db_questions, known, now,
                   response, score_calls>>

\* get_daily_scenario: `scenario = generate_scenario()`
start_generate(t, replies) ==
    /\ At(t, "start", "generate")
    /\ pending' = SetPending(t, [pending[t] EXCEPT
                      !.pc       = "save",
                      !.scenario = Some(generate_scenario(replies).scenario)])
    /\ UNCHANGED <<games, daily_scenarios, db_sessions, db_questions, issued,
                   known, now, response, score_calls>>

\* get_daily_scenario: `db.save_daily_scenario(today, scenario)`
start_save(t, ok) ==
    /\ At(t, "start", "save")
    /\ daily_scenarios' = save_daily_scenario(daily_scenarios, pending[t].today,
                               pending[t].scenario[1], ok)
    /\ pending' = SetPending(t, [pending[t] EXCEPT !.pc = "create"])
    /\ UNCHANGED <<games, db_sessions, db_questions, issued, known, now,
                   response, score_calls>>

\* start_game from `today = ...` on: the session is put in games, its row is
\* created and the public scenario is returned.
start_create(t, ok) ==
    /\ At(t, "start", "create")
    /\ LET session_id == pending[t].session_id
           scenario   == pending[t].scenario[1]
           game       == [ session_id    |-> session_id,
                           scenario      |-> scenario,
                           scenario_date |-> DateOf(now),
                           culprit       |-> scenario.culprit,
                           npcs          |-> scenario.npcs,
                           questions     |-> <<>>,
                           hints_used    |-> 0,
                           start_time    |-> now,
                           is_finished   |-> FALSE,
                           end_time      |-> None,
                           final_score   |-> None ]
       IN  /\ games' = PutGame(session_id, game)
           /\ db_sessions' = create_game_session(db_sessions, session_id,
                                  DateOf(now), scenario.culprit, now, ok)
           /\ IF scenario.keys = "no_display"
              THEN /\ response' = Reply("start", session_id, FALSE, 500, "cannot_start")
                   /\ UNCHANGED known
              ELSE /\ response' = [Reply("start", session_id, TRUE, 200, "") EXCEPT
                                      !.exposes = public_scenario_fields]
                   /\ known' = known \cup {session_id}
    /\ pending' = DropPending(t)
    /\ UNCHANGED <<daily_scenarios, db_questions, issued, now, score_calls>>

\* accuse_culprit up to the computation of the score: validation, the
\* session lookup, the is_finished test, the comparison with the culprit, the
\* count of records and calculate_final_score.  `game` is a reference to the
\* session's dict: what the handler writes later lands in that dict, whether
\* or not games still holds it.
accuse_check(t, session_id, suspect_name) ==
    /\ Idle(t)
    /\ UNCHANGED <<games, daily_scenarios, db_sessions, db_questions, issued,
                   known, now>>
    /\ LET Done(outcome) ==
               SetPending(t, [ op |-> "accuse", pc |-> "done",
                               session_id |-> session_id,
                               suspect_name |-> suspect_name,
                               question_count |-> 0, hints_used |-> 0,
                               score_info |-> None, outcome |-> outcome ])
       IN
       IF session_id = "" \/ suspect_name = ""
       THEN /\ response' = Reply("accuse", session_id, FALSE, 400, "missing")
            /\ pending' = Done("rejected")
            /\ UNCHANGED score_calls
       ELSE IF session_id \notin DOMAIN games
       THEN /\ response' = Reply("accuse", session_id, FALSE, 404, "invalid_session")
            /\ pending' = Done("rejected")
            /\ UNCHANGED score_calls
       ELSE LET game == games[session_id] IN
            IF finished_check(game)
            THEN /\ response' = Reply("accuse", session_id, FALSE, 400, "finished")
                 /\ pending' = Done("rejected")
                 /\ UNCHANGED score_calls
            ELSE IF ~is_correct(suspect_name, game)
            THEN /\ response' = [Reply("accuse", session_id, TRUE, 200, "") EXCEPT
                        !.is_correct      = Some(FALSE),
                        !.total_questions = Some(Len(game.questions)),
                        !.exposes         = wrong_fields]
                 /\ pending' = Done("wrong")
                 /\ UNCHANGED score_calls
            ELSE LET question_count == question_count_of(game)
                     avg            == average_quality(game, question_count)
                 IN
                 IF no_questions(question_count)
                 THEN /\ response' = Reply("accuse", session_id, FALSE, 400, "no_questions")
                      /\ pending' = Done("rejected")
                      /\ UNCHANGED score_calls
                 ELSE IF avg = None
                 THEN /\ response' = Reply("accuse", session_id, FALSE, 500, "accuse_error")
                      /\ pending' = Done("rejected")
                      /\ UNCHANGED score_calls
                 ELSE \E ties \in TieFlags :
                      /\ score_calls' = score_calls \cup {question_count}
                      /\ pending' = SetPending(t,
                             [ op |-> "accuse", pc |-> "mark",
                               session_id |-> session_id,
                               suspect_name |-> suspect_name,
                               question_count |-> question_count,
                               hints_used |-> game.hints_used,
                               score_info |->
                                  Some(calculate_final_score(question_count, avg[1], ties)),
                               outcome |-> "running" ])
                      /\ UNCHANGED response

\* accuse_culprit: `game['is_finished'] = True`
accuse_mark(t) ==
    /\ At(t, "accuse", "mark")
    /\ LET session_id == pending[t].session_id
       IN  games' = IF session_id \in DOMAIN games
                    THEN [games EXCEPT ![session_id].is_finished = TRUE]
                    ELSE games
    /\ pending' = SetPending(t, [pending[t] EXCEPT !.pc = "stamp"])
    /\ UNCHANGED <<daily_scenarios, db_sessions, db_questions, issued, known,
                   now, response, score_calls>>

\* accuse_culprit from `game['end_time'] = ...` on: end_time, final_score,
\* db.finish_game_session and the response.
accuse_stamp(t, db_ok) ==
    /\ At(t, "accuse", "stamp")
    /\ LET session_id == pending[t].session_id
           score_info == pending[t].score_info[1]
           hints_used == IF session_id \in DOMAIN games
                         THEN games[session_id].hints_used
                         ELSE pending[t].hints_used
       IN  /\ games' = IF session_id \in DOMAIN games
                       THEN [games EXCEPT
                                ![session_id].end_time    = Some(now),
                                ![session_id].final_score = Some(score_info)]
                       ELSE games
           /\ db_sessions' = finish_game_session(db_sessions, session_id, TRUE,
                                  pending[t].suspect_name, pending[t].question_count,
                                  hints_used, score_info, now, db_ok)
           /\ response' = [Reply("accuse", session_id, TRUE, 200, "") EXCEPT
                  !.is_correct = Some(TRUE),
                  !.culprit    = Some(pending[t].suspect_name),
                  !.score      = Some(score_info),
                  !.exposes    = solved_fields]
    /\ pending' = SetPending(t, [pending[t] EXCEPT !.pc = "done", !.outcome = "finished"])
    /\ UNCHANGED <<daily_scenarios, db_questions, issued, known, now, score_calls>>

\* ask_question up to the NPC lookup: the validations that reject a request
\* before any collaborator is called.
ask_accepts(session_id, npc_name, question) ==
    /\ session_id # "" /\ npc_name # "" /\ question # ""
    /\ session_id \in DOMAIN games
    /\ ~finished_check(games[session_id])
    /\ ~question_limit_reached(games[session_id])
    /\ InRoster(npc_name, games[session_id].npcs)
    /\ games[session_id].scenario.keys = "all"

\* ask_question, first step: a rejected request is answered at once, an
\* accepted one goes on to its two collaborator calls.
ask_check(t, session_id, npc_name, question) ==
    /\ Idle(t)
    /\ IF ask_accepts(session_id, npc_name, question)
       THEN /\ pending' = SetPending(t, [ op         |-> "ask",
                                          pc         |-> "call",
                                          session_id |-> session_id,
                                          npc_name   |-> npc_name,
                                          question   |-> question ])
            /\ UNCHANGED <<games, daily_scenarios, db_sessions, db_questions,
                           issued, known, now, response, score_calls>>
       ELSE /\ ask_question(session_id, npc_name, question,
                            EvalReply("exception", 0), "exception", TRUE)
            /\ UNCHANGED pending

\* ask_question: evaluate_question_quality, generate_npc_response, then
\* `timestamp = datetime.now()` and the question_record.
ask_call(t, eval_reply, npc_reply) ==
    /\ At(t, "ask", "call")
    /\ LET evaluation == evaluate_question_quality(eval_reply)
           record     == [ npc_name      |-> pending[t].npc_name,
                           question      |-> pending[t].question,
                           answer        |-> generate_npc_response(npc_reply),
                           quality_score |-> evaluation.score,
                           reasoning     |-> evaluation.reasoning,
                           timestamp     |-> now ]
       IN  pending' = SetPending(t, [ op         |-> "ask",
                                      pc         |-> "append",
                                      session_id |-> pending[t].session_id,
                                      record     |-> record ])
    /\ UNCHANGED <<games, daily_scenarios, db_sessions, db_questions, issued,
                   known, now, response, score_calls>>

\* ask_question from `game['questions'].append(question_record)` on.
ask_append(t, db_ok) ==
    /\ At(t, "ask", "append")
    /\ LET session_id == pending[t].session_id
           record     == pending[t].record
           after      == Append(games[session_id].questions, record)
       IN  /\ session_id \in DOMAIN games
           /\ games' = [games EXCEPT ![session_id].questions = after]
           /\ db_questions' = save_question(db_questions, session_id, record, db_ok)
           /\ response' = [Reply("ask", session_id, TRUE, 200, "") EXCEPT
                              !.answer          = Some(record.answer),
                              !.quality_score   = Some(record.quality_score),
                              !.total_questions = Some(Len(after)),
                              !.exposes         = ask_fields]
    /\ pending' = DropPending(t)
    /\ UNCHANGED <<daily_scenarios, db_sessions, issued, known, now, score_calls>>

\* get_hint up to the limit test.
hint_accepts(session_id) ==
    /\ session_id # ""
    /\ session_id \in DOMAIN games
    /\ ~hint_limit_reached(games[session_id])

\* get_hint, first step: rejected at once, or on to the collaborator call.
hint_check(t, session_id) ==
    /\ Idle(t)
    /\ IF hint_accepts(session_id)
       THEN /\ pending' = SetPending(t, [ op         |-> "hint",
                                          pc         |-> "call",
                                          session_id |-> session_id ])
            /\ UNCHANGED <<games, daily_scenarios, db_sessions, db_questions,
                           issued, known, now, response, score_calls>>
       ELSE /\ get_hint(session_id, "exception")
            /\ UNCHANGED pending

\* get_hint: model.generate_content, then the hint_record with its
\* `datetime.now()`.
hint_call(t, hint_reply) ==
    /\ At(t, "hint", "call")
    /\ IF hint_failed(hint_reply)
       THEN /\ Rejected("hint", pending[t].session_id, 500, "hint_error")
            /\ pending' = DropPending(t)
       ELSE /\ pending' = SetPending(t,
                   [ op         |-> "hint",
                     pc         |-> "append",
                     session_id |-> pending[t].session_id,
                     record     |-> [ npc_name      |-> "SYSTEM",
                                      question      |-> "[hint]",
                                      answer        |-> "hint",
                                      quality_score |-> 0,
                                      reasoning     |-> "hint",
                                      timestamp     |-> now ] ])
            /\ UNCHANGED <<games, db_sessions, db_questions, response, score_calls>>
    /\ UNCHANGED <<daily_scenarios, issued, known, now>>

\* get_hint from `game['questions'].append(hint_record)` on.
hint_append(t) ==
    /\ At(t, "hint", "append")
    /\ LET session_id == pending[t].session_id
           game       == games[session_id]
       IN  /\ session_id \in DOMAIN games
           /\ games' = [games EXCEPT
                  ![session_id].questions  = Append(@, pending[t].record),
                  ![session_id].hints_used = @ + 1]
           /\ response' = [Reply("hint", session_id, TRUE, 200, "") EXCEPT
                  !.answer          = Some("hint"),
                  !.hints_remaining = Some(MAX_HINTS - (game.hints_used + 1)),
                  !.exposes         = hint_fields]
    /\ pending' = DropPending(t)
    /\ UNCHANGED <<daily_scenarios, db_sessions, db_questions, issued, known,
                   now, score_calls>>

(***************************************************************************)
(* The cleanup pass (a Timer thread of its own).                           *)
(***************************************************************************)
\* cleanup_old_games: the test that puts a session on to_delete.  A session
\* without the key 'end_time' is judged by its start_time.
cleanup_evicts(game, t_now) ==
    /\ game.is_finished
    /\ LET end_time == IF game.end_time # None THEN game.end_time[1]
                       ELSE game.start_time
       IN  (t_now - end_time) > GAME_RETENTION_TIME

\* db.delete_old_sessions(hours=24): finished rows that ended over a day ago.
delete_old_sessions(table, t_now, ok) ==
    IF ok
    THEN [s \in {x \in DOMAIN table :
                   ~(/\ table[x].is_finished
                     /\ table[x].end_time # None
                     /\ table[x].end_time[1] < t_now - SecondsPerDay)} |-> table[s]]
    ELSE table

\* db.delete_old_scenarios(days=30): rows created over 30 days ago (a row is
\* created on the day of its key).
delete_old_scenarios(table, t_now, ok) ==
    IF ok
    THEN [d \in {x \in DOMAIN table :
                   ~((x + 1) * SecondsPerDay <= t_now - 30 * SecondsPerDay)} |-> table[d]]
    ELSE table

\* cleanup_old_games(): one pass.
cleanup_old_games(sessions_ok, scenarios_ok) ==
    /\ games' = [s \in {x \in DOMAIN games : ~cleanup_evicts(games[x], now)} |-> games[s]]
    /\ db_sessions' = delete_old_sessions(db_sessions, now, sessions_ok)
    /\ daily_scenarios' = delete_old_scenarios(daily_scenarios, now, scenarios_ok)
    /\ UNCHANGED <<db_questions, issued, known, now, response, score_calls>>

(***************************************************************************)
(* The cleanup pass step by step, as the Timer thread runs it next to the  *)
(* request threads.  pending["timer"] holds the thread's locals, the       *)
(* number of Timer objects that are armed and the delay they were given.   *)
(***************************************************************************)
TimerThread == "timer"

\* The state of the Timer thread after the first call of cleanup_old_games()
\* at import time: the pass over the empty games is done, one Timer armed.
TimerArmed ==
    [ op        |-> "cleanup",
      pc        |-> "armed",
      timers    |-> 1,
      delay     |-> GAME_CLEANUP_INTERVAL,
      run_now   |-> 0,
      size      |-> 0,
      to_delete |-> {},
      failed    |-> FALSE ]

\* Mutant: the next run is scheduled at the end of the try block instead of
\* in finally.
cleanup_reschedules_on_success(failed) == ~failed

\* cleanup_old_games: `finally:` runs whether or not the pass raised.
cleanup_reschedules(failed) == TRUE

\* The armed Timer fires and cleanup_old_games starts: `now = ...`,
\* `to_delete = []` and the iterator over games.items().
cleanup_begin ==
    /\ At(TimerThread, "cleanup", "armed")
    /\ pending[TimerThread].timers >= 1
    /\ pending' = SetPending(TimerThread, [pending[TimerThread] EXCEPT
                      !.pc        = "scan",
                      !.timers    = @ - 1,
                      !.run_now   = now,
                      !.size      = Cardinality(DOMAIN games),
                      !.to_delete = {},
                      !.failed    = FALSE])
    /\ UNCHANGED <<games, daily_scenarios, db_sessions, db_questions, issued,
                   known, now, response, score_calls>>

\* The loop `for session_id, game in games.items()`.  The dict iterator
\* raises RuntimeError (dictionary changed size during iteration) when games
\* has gained a key since the loop began; `except Exception` catches it and
\* the rest of the try block is skipped.
cleanup_scan ==
    /\ At(TimerThread, "cleanup", "scan")
    /\ pending' = SetPending(TimerThread,
          IF Cardinality(DOMAIN games) # pending[TimerThread].size
          THEN [pending[TimerThread] EXCEPT !.pc = "schedule", !.failed = TRUE]
          ELSE [pending[TimerThread] EXCEPT
                   !.pc        = "evict",
                   !.to_delete = {s \in DOMAIN games :
                                    cleanup_evicts(games[s], pending[TimerThread].run_now)}])
    /\ UNCHANGED <<games, daily_scenarios, db_sessions, db_questions, issued,
                   known, now, response, score_calls>>

\* `for session_id in to_delete: del games[session_id]`
cleanup_evict ==
    /\ At(TimerThread, "cleanup", "evict")
    /\ games' = [s \in DOMAIN games \ pending[TimerThread].to_delete |-> games[s]]
    /\ pending' = SetPending(TimerThread, [pending[TimerThread] EXCEPT !.pc = "rows"])
    /\ UNCHANGED <<daily_scenarios, db_sessions, db_questions, issued, known,
                   now, response, score_calls>>

\* db.delete_old_sessions(hours=24) and db.delete_old_scenarios(days=30);
\* both catch their own exceptions and return 0.
cleanup_rows(sessions_ok, scenarios_ok) ==
    /\ At(TimerThread, "cleanup", "rows")
    /\ db_sessions' = delete_old_sessions(db_sessions, now, sessions_ok)
    /\ daily_scenarios' = delete_old_scenarios(daily_scenarios, now, scenarios_ok)
    /\ pending' = SetPending(TimerThread, [pending[TimerThread] EXCEPT !.pc = "schedule"])
    /\ UNCHANGED <<games, db_questions, issued, known, now, response, score_calls>>

\* `finally: Timer(GAME_CLEANUP_INTERVAL, cleanup_old_games).start()`
cleanup_schedule ==
    /\ At(TimerThread, "cleanup", "schedule")
    /\ pending' = SetPending(TimerThread, [pending[TimerThread] EXCEPT
                      !.pc     = "armed",
                      !.timers = IF cleanup_reschedules(pending[TimerThread].failed)
                                 THEN @ + 1 ELSE @,
                      !.delay  = GAME_CLEANUP_INTERVAL])
    /\ UNCHANGED <<games, daily_scenarios, db_sessions, db_questions, issued,
                   known, now, response, score_calls>>

(***************************************************************************)
(* CleanupSpec: the Timer thread running its passes while sessions are     *)
(* created, given a hint as their record, solved, and the clock moves on.  *)
(* CleanupLive adds that a step of the Timer thread which stays possible   *)
(* is taken: an armed Timer fires, a running pass goes on.                 *)
(***************************************************************************)
CleanupInit ==
    /\ games = <<>>
    /\ daily_scenarios = <<>>
    /\ db_sessions = <<>>
    /\ db_questions = <<>>
    /\ issued = {}
    /\ known = {}
    /\ now = 0
    /\ response = NoReply
    /\ score_calls = {}
    /\ score_in = [n |-> 1, sum |-> 0]
    /\ score_out = None
    /\ gen_in = <<>>
    /\ gen_calls = 0
    /\ gen_out = None
    /\ pending = [x \in {TimerThread} |-> TimerArmed]

CUStart ==
    /\ \E session_id \in RaceSessionIds : start_game(session_id, AllFail, DbAllOk)
    /\ UNCHANGED <<score_vars, gen_vars, pending>>

CUHint ==
    /\ \E session_id \in known :
          /\ session_id \in DOMAIN games
          /\ games[session_id].questions = <<>>
          /\ get_hint(session_id, "text")
    /\ UNCHANGED <<score_vars, gen_vars, pending>>

CUAccuse ==
    /\ \E session_id \in known :
          /\ session_id \in DOMAIN games
          /\ ~games[session_id].is_finished
          /\ games[session_id].questions # <<>>
          /\ accuse_culprit(session_id, games[session_id].culprit, TRUE)
    /\ UNCHANGED <<score_vars, gen_vars, pending>>

CUTick ==
    /\ now < CleanTicks * TickStep
    /\ now' = now + TickStep
    /\ UNCHANGED <<games, daily_scenarios, db_sessions, db_questions, issued,
                   known, response, score_calls, score_vars, gen_vars, pending>>

CUBegin == cleanup_begin /\ UNCHANGED <<score_vars, gen_vars>>

CUScan == cleanup_scan /\ UNCHANGED <<score_vars, gen_vars>>

CUEvict == cleanup_evict /\ UNCHANGED <<score_vars, gen_vars>>

CURows ==
    /\ \E sessions_ok \in BOOLEAN, scenarios_ok \in BOOLEAN :
          cleanup_rows(sessions_ok, scenarios_ok)
    /\ UNCHANGED <<score_vars, gen_vars>>

CUSchedule == cleanup_schedule /\ UNCHANGED <<score_vars, gen_vars>>

CleanupRun == CUBegin \/ CUScan \/ CUEvict \/ CURows \/ CUSchedule

CleanupNext == CUStart \/ CUHint \/ CUAccuse \/ CUTick \/ CleanupRun

CleanupSpec == CleanupInit /\ [][CleanupNext]_vars

CleanupLive == CleanupSpec /\ WF_vars(CleanupRun)

(***************************************************************************)
(* AccuseRaceSpec: one session on the fallback scenario, hints as its      *)
(* records, two /accuse requests in every interleaving with each other,    *)
(* with the cleanup pass and with the clock.                               *)
(***************************************************************************)
ARStart ==
    /\ \E session_id \in SessionIds : start_game(session_id, AllFail, DbAllOk)
    /\ UNCHANGED <<score_vars, gen_vars, pending>>

ARHint ==
    /\ \E session_id \in RequestIds :
          /\ session_id \in DOMAIN games
          /\ games[session_id].questions = <<>>
          /\ get_hint(session_id, "text")
    /\ UNCHANGED <<score_vars, gen_vars, pending>>

ARAccuse ==
    /\ \E t \in Threads, session_id \in known :
          \E suspect_name \in AccuseNames(session_id) :
             accuse_check(t, session_id, suspect_name)
    /\ UNCHANGED <<score_vars, gen_vars>>

ARMark ==
    /\ \E t \in Threads : accuse_mark(t)
    /\ UNCHANGED <<score_vars, gen_vars>>

ARStamp ==
    /\ \E t \in Threads : accuse_stamp(t, TRUE)
    /\ UNCHANGED <<score_vars, gen_vars>>

ARCleanup ==
    /\ cleanup_old_games(TRUE, TRUE)
    /\ UNCHANGED <<score_vars, gen_vars, pending>>

\* The clock moves on, though not by a whole tick between the two adjacent
\* assignments of accuse_culprit.
ARTick ==
    /\ now < CleanTicks * TickStep
    /\ \A t \in Threads : ~At(t, "accuse", "stamp")
    /\ now' = now + TickStep
    /\ UNCHANGED <<games, daily_scenarios, db_sessions, db_questions, issued,
                   known, response, score_calls, score_vars, gen_vars, pending>>

AccuseRaceNext ==
    ARStart \/ ARHint \/ ARAccuse \/ ARMark \/ ARStamp \/ ARCleanup \/ ARTick

AccuseRaceSpec == Init /\ [][AccuseRaceNext]_vars

(***************************************************************************)
(* SessionRaceSpec: one session on the fallback scenario; /ask and /hint   *)
(* requests on two threads in every interleaving with each other, with an  *)
(* /accuse and with the clock.                                             *)
(***************************************************************************)
\* A request is issued while the session holds fewer than RaceRecords
\* records.
RaceShort(session_id) ==
    session_id \in DOMAIN games => Len(games[session_id].questions) < RaceRecords

SRStart ==
    /\ \E session_id \in SessionIds : start_game(session_id, AllFail, DbAllOk)
    /\ UNCHANGED <<score_vars, gen_vars, pending>>

SRAskCheck ==
    /\ \E t \in Threads, session_id \in known :
          /\ RaceShort(session_id)
          /\ \E npc_name \in AskNames(session_id), question \in Questions :
                ask_check(t, session_id, npc_name, question)
    /\ UNCHANGED <<score_vars, gen_vars>>

SRAskCall ==
    /\ \E t \in Threads : ask_call(t, EvalReply("number", 80), "text")
    /\ UNCHANGED <<score_vars, gen_vars>>

SRAskAppend ==
    /\ \E t \in Threads : ask_append(t, TRUE)
    /\ UNCHANGED <<score_vars, gen_vars>>

SRHintCheck ==
    /\ \E t \in Threads, session_id \in known :
          /\ RaceShort(session_id)
          /\ hint_check(t, session_id)
    /\ UNCHANGED <<score_vars, gen_vars>>

SRHintCall ==
    /\ \E t \in Threads, hint_reply \in TextReplies : hint_call(t, hint_reply)
    /\ UNCHANGED <<score_vars, gen_vars>>

SRHintAppend ==
    /\ \E t \in Threads : hint_append(t)
    /\ UNCHANGED <<score_vars, gen_vars>>

SRAccuse ==
    /\ \E session_id \in known :
          accuse_culprit(session_id, games[session_id].culprit, TRUE)
    /\ UNCHANGED <<score_vars, gen_vars, pending>>

SRTick ==
    /\ now < RaceTicks
    /\ now' = now + 1
    /\ UNCHANGED <<games, daily_scenarios, db_sessions, db_questions, issued,
                   known, response, score_calls, score_vars, gen_vars, pending>>

SessionRaceNext ==
    \/ SRStart \/ SRAskCheck \/ SRAskCall \/ SRAskAppend
    \/ SRHintCheck \/ SRHintCall \/ SRHintAppend \/ SRAccuse \/ SRTick

SessionRaceSpec == Init /\ [][SessionRaceNext]_vars

(***************************************************************************)
(* DbSpec: /start, /ask and /accuse on the fallback scenario with every    *)
(* outcome of every database operation they perform.                       *)
(***************************************************************************)
DbStart ==
    /\ \E session_id \in RaceSessionIds, db \in DbFlags :
          start_game(session_id, AllFail, db)
    /\ UNCHANGED <<score_vars, gen_vars, pending>>

DbAsk ==
    /\ \E session_id \in RequestIds, db_ok \in BOOLEAN :
          /\ Short(session_id)
          /\ \E npc_name \in AskNames(session_id), question \in Questions :
                ask_question(session_id, npc_name, question,
                             EvalReply("number", 80), "text", db_ok)
    /\ UNCHANGED <<score_vars, gen_vars, pending>>

DbAccuse ==
    /\ \E session_id \in RequestIds, db_ok \in BOOLEAN :
          \E suspect_name \in AccuseNames(session_id) :
             accuse_culprit(session_id, suspect_name, db_ok)
    /\ UNCHANGED <<score_vars, gen_vars, pending>>

DbNext == DbStart \/ DbAsk \/ DbAccuse

DbSpec == Init /\ [][DbNext]_vars

(***************************************************************************)
(* DaySpec: /start requests shortly before midnight, the clock moving      *)
(* on between their steps.                                                 *)
(***************************************************************************)
DayInit ==
    /\ games = <<>>
    /\ daily_scenarios = <<>>
    /\ db_sessions = <<>>
    /\ db_questions = <<>>
    /\ issued = {}
    /\ known = {}
    /\ now = SecondsPerDay - CallSeconds
    /\ response = NoReply
    /\ score_calls = {}
    /\ score_in = [n |-> 1, sum |-> 0]
    /\ score_out = None
    /\ gen_in = <<>>
    /\ gen_calls = 0
    /\ gen_out = None
    /\ pending = <<>>

DayLookup ==
    /\ \E t \in Threads, session_id \in RaceSessionIds : start_lookup(t, session_id)
    /\ UNCHANGED <<score_vars, gen_vars>>

DayGenerate ==
    /\ \E t \in Threads : start_generate(t, AllFail)
    /\ UNCHANGED <<score_vars, gen_vars>>

DaySave ==
    /\ \E t \in Threads, ok \in BOOLEAN : start_save(t, ok)
    /\ UNCHANGED <<score_vars, gen_vars>>

DayCreate ==
    /\ \E t \in Threads, ok \in BOOLEAN : start_create(t, ok)
    /\ UNCHANGED <<score_vars, gen_vars>>

DayTick ==
    /\ now < SecondsPerDay - CallSeconds + DayTicks * CallSeconds
    /\ now' = now + CallSeconds
    /\ UNCHANGED <<games, daily_scenarios, db_sessions, db_questions, issued,
                   known, response, score_calls, score_vars, gen_vars, pending>>

DayNext == DayLookup \/ DayGenerate \/ DaySave \/ DayCreate \/ DayTick

DaySpec == DayInit /\ [][DayNext]_vars

(***************************************************************************)
(* StartRaceSpec: two /start requests, in every interleaving, with every   *)
(* outcome of the two database writes.                                     *)
(***************************************************************************)
RaceScenarioReplies ==
    {r \in ScenarioReplies : r.kind = "exception" \/ (r.npcs # <<>> /\ r.keys = "all")}

RaceLookup ==
    /\ \E t \in Threads, session_id \in RaceSessionIds : start_lookup(t, session_id)
    /\ UNCHANGED <<score_vars, gen_vars>>

RaceGenerate ==
    /\ \E t \in Threads, replies \in [1..max_retries -> RaceScenarioReplies] :
          start_generate(t, replies)
    /\ UNCHANGED <<score_vars, gen_vars>>

RaceSave ==
    /\ \E t \in Threads, ok \in BOOLEAN : start_save(t, ok)
    /\ UNCHANGED <<score_vars, gen_vars>>

RaceCreate ==
    /\ \E t \in Threads, ok \in BOOLEAN : start_create(t, ok)
    /\ UNCHANGED <<score_vars, gen_vars>>

StartRaceNext == RaceLookup \/ RaceGenerate \/ RaceSave \/ RaceCreate

StartRaceSpec == Init /\ [][StartRaceNext]_vars

(***************************************************************************)
(* EvalSpec: one session on the fallback scenario; every ask meets every   *)
(* reply of the collaborator to its two calls and either outcome of the    *)
(* database write.                                                         *)
(***************************************************************************)
EvalStart ==
    /\ \E session_id \in SessionIds : start_game(session_id, AllFail, DbAllOk)
    /\ UNCHANGED <<score_vars, gen_vars, pending>>

EvalAsk ==
    /\ \E session_id \in RequestIds, eval_reply \in EvalReplies,
          npc_reply \in TextReplies, db_ok \in BOOLEAN :
          /\ Short(session_id)
          /\ \E npc_name \in AskNames(session_id), question \in Questions :
                ask_question(session_id, npc_name, question, eval_reply, npc_reply, db_ok)
    /\ UNCHANGED <<score_vars, gen_vars, pending>>

EvalHint ==
    /\ \E session_id \in RequestIds :
          /\ Short(session_id)
          /\ get_hint(session_id, "text")
    /\ UNCHANGED <<score_vars, gen_vars, pending>>

EvalNext == EvalStart \/ EvalAsk \/ EvalHint

EvalSpec == Init /\ [][EvalNext]_vars

(***************************************************************************)
(* GenSpec: generate_scenario on its own, one pass of its retry loop per    *)
(* step, for every sequence of collaborator replies.  GenLive adds that a   *)
(* running call keeps running (the loop has no blocking point of its own).  *)
(***************************************************************************)
GenInit ==
    /\ games = <<>>
    /\ daily_scenarios = <<>>
    /\ db_sessions = <<>>
    /\ db_questions = <<>>
    /\ issued = {}
    /\ known = {}
    /\ now = 0
    /\ response = NoReply
    /\ score_calls = {}
    /\ score_in = [n |-> 1, sum |-> 0]
    /\ score_out = None
    /\ gen_in \in [1..max_retries -> ScenarioReplies]
    /\ gen_calls = 0
    /\ gen_out = None
    /\ pending = <<>>

\* One pass of the loop: call the collaborator, return if the reply parses
\* and validates, else go round again.
GenAttempt ==
    /\ gen_out = None
    /\ ~retries_exhausted(gen_calls)
    /\ gen_calls' = gen_calls + 1
    /\ gen_out' = AttemptScenario(gen_in[gen_calls + 1])
    /\ UNCHANGED <<gen_in, session_vars, score_vars, pending>>

\* After the loop: `return DEFAULT_SCENARIO`.
GenFallback ==
    /\ gen_out = None
    /\ retries_exhausted(gen_calls)
    /\ gen_out' = Some(DEFAULT_SCENARIO)
    /\ UNCHANGED <<gen_in, gen_calls, session_vars, score_vars, pending>>

GenNext == GenAttempt \/ GenFallback

GenSpec == GenInit /\ [][GenNext]_vars

GenLive == GenInit /\ [][GenNext]_vars /\ WF_vars(GenNext)

(***************************************************************************)
(* Properties                                                              *)
(***************************************************************************)
\* The requests a step may be, whatever the collaborator and the database do.
\* (The first three conjuncts follow from the handler; they spare evaluating
\* it on steps of other kinds.)
AskNamed(session_id, npc_name) ==
    /\ response'.op = "ask"
    /\ response'.session_id = session_id
    /\ now' = now
    /\ \E question \in Questions, eval_reply \in EvalReplies,
          npc_reply \in TextReplies, db_ok \in BOOLEAN :
          ask_question(session_id, npc_name, question, eval_reply, npc_reply, db_ok)

AskOn(session_id) ==
    \E npc_name \in AccuseNames(session_id) : AskNamed(session_id, npc_name)

AccuseNamed(session_id, suspect_name) ==
    /\ response'.op = "accuse"
    /\ response'.session_id = session_id
    /\ now' = now
    /\ \E db_ok \in BOOLEAN : accuse_culprit(session_id, suspect_name, db_ok)

AccuseOn(session_id) ==
    \E suspect_name \in AccuseNames(session_id) : AccuseNamed(session_id, suspect_name)

HintOn(session_id) ==
    /\ response'.op = "hint"
    /\ response'.session_id = session_id
    /\ now' = now
    /\ \E hint_reply \in TextReplies : get_hint(session_id, hint_reply)

\* The fields of a session the lifecycle rules speak of.
Core(game) ==
    <<game.questions, game.hints_used, game.final_score, game.end_time,
      game.is_finished>>

\* The sum of the quality scores, hints counting as 0.
QualityTotal(questions) ==
    LET RECURSIVE Upto(_)
        Upto(k) == IF k = 0 THEN 0
                   ELSE Upto(k - 1) +
                        (IF questions[k].npc_name = "SYSTEM" THEN 0
                         ELSE questions[k].quality_score)
    IN  Upto(Len(questions))

\* C1: once a session is finished, every ask and every accusation on it is
\* rejected with an error and leaves questions, hints_used, final_score,
\* end_time and is_finished as they were.
C1_FinishedRejectsAskAndAccuse ==
    [][\A s \in DOMAIN games :
          (games[s].is_finished /\ (AskOn(s) \/ AccuseOn(s)))
          => /\ ~response'.success
             /\ response'.status = 400
             /\ response'.error = "finished"
             /\ s \in DOMAIN games'
             /\ Core(games'[s]) = Core(games[s])]_vars

C1_Witness ==
    \E s \in DOMAIN games :
       /\ games[s].is_finished
       /\ response.op = "ask"
       /\ response.session_id = s
       /\ response.error = "finished"

\* C2: an accusation naming the culprit on an active session with at least
\* one record finishes the session, stamps end_time with the current time and
\* stores final_score = score(n, avg), n the number of all records (hints
\* included) and avg their mean quality (hints counting as 0).
C2_CorrectAccusationFinishesAndScores ==
    [][\A s \in DOMAIN games :
          LET game == games[s]
              n    == Len(game.questions)
          IN  (~game.is_finished /\ n >= 1 /\ AccuseNamed(s, game.culprit))
              => /\ games'[s].is_finished
                 /\ games'[s].end_time = Some(now)
                 /\ games'[s].questions = game.questions
                 /\ \E ties \in TieFlags :
                       games'[s].final_score =
                          Some(calculate_final_score(n,
                                  [num |-> QualityTotal(game.questions), den |-> n],
                                  ties))
                 /\ response'.success
                 /\ response'.score = games'[s].final_score]_vars

\* One question scored 80 and one hint: n = 2, avg_quality = 40.0.
C2_Witness ==
    \E s \in DOMAIN games :
       /\ games[s].is_finished
       /\ Len(games[s].questions) = 2
       /\ {games[s].questions[i].quality_score : i \in 1..2} = {0, 80}
       /\ HintCount(games[s].questions) = 1
       /\ games[s].final_score # None
       /\ games[s].final_score[1].question_count = 2
       /\ games[s].final_score[1].avg_quality = 400
       /\ games[s].end_time = Some(now)

\* C3: an accusation naming anyone but the culprit on an active session
\* changes nothing of the session (or of any table): it stays active, with
\* the same questions, hints_used and no end_time or final_score.
C3_WrongAccusationChangesNothing ==
    [][\A s \in DOMAIN games : \A name \in AccuseNames(s) :
          (~games[s].is_finished /\ name # games[s].culprit /\ AccuseNamed(s, name))
          => /\ games' = games
             /\ ~games'[s].is_finished
             /\ games'[s].end_time = None
             /\ games'[s].final_score = None
             /\ db_sessions' = db_sessions
             /\ db_questions' = db_questions
             /\ response'.success
             /\ response'.is_correct = Some(FALSE)]_vars

C3_Witness ==
    \E s \in DOMAIN games :
       /\ response.op = "accuse"
       /\ response.session_id = s
       /\ response.is_correct = Some(FALSE)
       /\ ~games[s].is_finished
       /\ Len(games[s].questions) >= 1
       /\ games[s].hints_used >= 1

\* C4: hint-only sessions cannot win: no session is finished by an accusation
\* made when its records were all hints.
C4_HintOnlySessionCannotWin ==
    \A s \in DOMAIN games :
       games[s].is_finished =>
          \E i \in 1..games[s].final_score[1].question_count :
             games[s].questions[i].npc_name # "SYSTEM"

\* C5: an accusation naming the culprit on an active session with no record
\* is rejected with the error "no questions asked": the session, the tables
\* and the set of scoring calls are unchanged; and the scoring function is
\* never called with question_count = 0.
C5_EmptySessionAccusationRejected ==
    /\ [](0 \notin score_calls)
    /\ [][\A s \in DOMAIN games :
             (~games[s].is_finished /\ games[s].questions = <<>>
                 /\ AccuseNamed(s, games[s].culprit))
             => /\ response' = Reply("accuse", s, FALSE, 400, "no_questions")
                /\ games' = games
                /\ db_sessions' = db_sessions
                /\ db_questions' = db_questions
                /\ daily_scenarios' = daily_scenarios
                /\ score_calls' = score_calls]_vars

C5_Witness ==
    \E s \in DOMAIN games :
       /\ response = Reply("accuse", s, FALSE, 400, "no_questions")
       /\ games[s].questions = <<>>
       /\ ~games[s].is_finished
       /\ s \in DOMAIN db_sessions
       /\ ~db_sessions[s].is_finished

\* C6: an ask naming an NPC of the roster on an active session is accepted
\* exactly when the number of non-hint records is below MAX_QUESTIONS.
C6_AskAcceptedIffNonHintBelowCap ==
    [][\A s \in DOMAIN games : \A name \in Roster(s) :
          (~games[s].is_finished /\ AskNamed(s, name))
          => (response'.success
                 <=> NonHintCount(games[s].questions) < MAX_QUESTIONS)]_vars

\* C7: a session never holds more than MAX_QUESTIONS non-hint records, and an
\* ask issued when it holds MAX_QUESTIONS of them is rejected and leaves the
\* session as it was.
C7_NonHintCountBounded ==
    /\ [](\A s \in DOMAIN games : NonHintCount(games[s].questions) <= MAX_QUESTIONS)
    /\ [][\A s \in DOMAIN games :
             (NonHintCount(games[s].questions) = MAX_QUESTIONS /\ AskOn(s))
             => /\ ~response'.success
                /\ games' = games
                /\ NonHintCount(games'[s].questions) = MAX_QUESTIONS]_vars

C7_Witness ==
    \E s \in DOMAIN games :
       /\ NonHintCount(games[s].questions) = MAX_QUESTIONS
       /\ ~games[s].is_finished
       /\ response.op = "ask"
       /\ response.session_id = s
       /\ response.error = "max_questions"

\* C8: hints_used stays within 0..MAX_HINTS, never decreases, and equals the
\* number of SYSTEM records, each of quality 0; a hint requested when
\* hints_used = MAX_HINTS is rejected and changes neither hints_used nor
\* questions.
C8_HintAccounting ==
    /\ [](\A s \in DOMAIN games :
             /\ games[s].hints_used \in 0..MAX_HINTS
             /\ games[s].hints_used = HintCount(games[s].questions)
             /\ \A i \in 1..Len(games[s].questions) :
                   games[s].questions[i].npc_name = "SYSTEM"
                      => games[s].questions[i].quality_score = 0)
    /\ [][\A s \in DOMAIN games :
             /\ s \in DOMAIN games'
             /\ games'[s].hints_used >= games[s].hints_used
             /\ (games[s].hints_used = MAX_HINTS /\ HintOn(s))
                => /\ ~response'.success
                   /\ response'.error = "max_hints"
                   /\ games'[s].hints_used = games[s].hints_used
                   /\ games'[s].questions = games[s].questions]_vars

C8_Witness ==
    \E s \in DOMAIN games :
       /\ games[s].hints_used = MAX_HINTS
       /\ HintCount(games[s].questions) = MAX_HINTS
       /\ response.op = "hint"
       /\ response.session_id = s
       /\ response.error = "max_hints"

\* The count component the specification states, in tenths.
StatedCountTenths(n) ==
    IF n <= 10 THEN 500
    ELSE IF n <= 20 THEN 500 - 25 * (n - 10)
    ELSE Max(0, 250 - 50 * (n - 20))

\* t tenths is x = num/den reported to one decimal: |t/10 - num/den| <= 1/20.
IsOneDecimalOf(t, num, den) ==
    /\ 2 * (den * t - 10 * num) <= den
    /\ 2 * (10 * num - den * t) <= den

\* The grade the thresholds give for a total of t tenths.
GradeOfTenths(t) ==
    IF t >= 900 THEN "S"
    ELSE IF t >= 800 THEN "A"
    ELSE IF t >= 700 THEN "B"
    ELSE IF t >= 600 THEN "C"
    ELSE "D"

\* What score(n, sum / n) is stated to return.
ScoreAsStated(n, sum, result) ==
    LET count == StatedCountTenths(n) IN
    \* quality = 50 * avg / 100 = sum / (2n), to one decimal
    /\ IsOneDecimalOf(result.quality_score, sum, 2 * n)
    /\ result.count_score = count
    \* total = quality + count = (10 * sum + 2n * count) / (20n), to one decimal
    /\ IsOneDecimalOf(result.total_score, 10 * sum + 2 * n * count, 20 * n)
    /\ result.total_score \in 0..1000
    /\ result.question_count = n

\* C9: for every question_count n >= 1 and every average a = sum/n of n
\* integer scores 0..100, the result has quality = 50*a/100, the stated
\* count component and total = quality + count, each to one decimal, with
\* total in [0, 100]; and score(10,100), score(20,80), score(25,0) are
\* (50.0, 50.0, 100.0, S), (40.0, 25.0, 65.0, C), (0.0, 0.0, 0.0, D).
C9_ScoreComponents ==
    score_out # None =>
       LET r == score_out[1]
           n == score_in.n
           sum == score_in.sum
           Is(q, c, t, g) == /\ r.quality_score = q
                             /\ r.count_score = c
                             /\ r.total_score = t
                             /\ r.grade = g
       IN  /\ ScoreAsStated(n, sum, r)
           /\ (n = 10 /\ sum = 1000) => Is(500, 500, 1000, "S")
           /\ (n = 20 /\ sum = 1600) => Is(400, 250, 650, "C")
           /\ (n = 25 /\ sum = 0) => Is(0, 0, 0, "D")

C9_Witness ==
    /\ score_out # None
    /\ score_in = [n |-> 25, sum |-> 0]
    /\ score_out[1].total_score = 0

\* C10: the grade follows the thresholds applied to the reported total (the
\* total rounded to one decimal place).
C10_GradeFollowsReportedTotal ==
    score_out # None => score_out[1].grade = GradeOfTenths(score_out[1].total_score)

\* C11: the count component is non-increasing in question_count (for the
\* same average, n = 10/11 and n = 20/21 included) and the quality component
\* is non-decreasing in the average (for the same question_count): the result
\* for (n, sum/n) is compared with the results for every larger count and,
\* for every denominator n2, the next larger average sum2/n2.
C11_ScoreMonotone ==
    score_out # None =>
       LET r    == score_out[1]
           n    == score_in.n
           sum  == score_in.sum
           avg  == [num |-> sum, den |-> n]
           Tie(b) == [total |-> b, quality |-> b, avg |-> b]
       IN  /\ \A n2 \in (n + 1)..(MaxCount + 1) : \A b \in BOOLEAN :
                 calculate_final_score(n2, avg, Tie(b)).count_score <= r.count_score
           /\ \A n2 \in 1..MaxCount : \A b \in BOOLEAN :
                 LET sum2 == ((sum * n2) \div n) + 1     \* sum2/n2 > sum/n
                 IN  sum2 <= 100 * n2 =>
                        calculate_final_score(n, [num |-> sum2, den |-> n2], Tie(b)).quality_score
                           >= r.quality_score

\* The boundary n = 20 (count 25.0), compared with n = 21 (count 20.0).
C11_Witness ==
    /\ score_out # None
    /\ score_in.n = 20
    /\ score_in.sum = 1000
    /\ score_out[1].count_score = 250
    /\ score_out[1].quality_score = 250

\* A reply the loop can return a scenario from: a JSON object carrying the
\* culprit and a roster that is not empty.
Usable(reply) == reply.kind = "json" /\ reply.has_keys /\ reply.npcs # <<>>

\* C12: every scenario generate_scenario returns has its culprit in its
\* roster; a scenario taken from a reply keeps the reply's roster, and its
\* culprit is the reply's when that is in the roster and the first NPC's name
\* when it is not; any other result is the hardcoded fallback.
C12_CulpritInRoster ==
    gen_out # None =>
       LET scenario == gen_out[1]
           reply    == gen_in[gen_calls]
       IN  /\ InRoster(scenario.culprit, scenario.npcs)
           /\ IF Usable(reply)
              THEN /\ scenario.npcs = reply.npcs
                   /\ InRoster(reply.culprit, reply.npcs) => scenario.culprit = reply.culprit
                   /\ ~InRoster(reply.culprit, reply.npcs) => scenario.culprit = reply.npcs[1]
              ELSE /\ scenario = DEFAULT_SCENARIO
                   /\ scenario.culprit = scenario.npcs[1]

\* The second reply names a culprit outside its roster: repaired to "Ann".
C12_Witness ==
    /\ gen_out # None
    /\ gen_calls = 2
    /\ gen_in[2].culprit = "Zed"
    /\ gen_in[2].npcs = <<"Ann", "Bob", "Cho">>
    /\ gen_out[1].culprit = "Ann"

\* The usable replies among the first k.
UsableUpTo(k) == {i \in 1..k : Usable(gen_in[i])}

\* C13: generate_scenario terminates with a scenario; it calls the
\* collaborator at most 3 times; it returns the scenario of the first usable
\* reply, having made no call after it; when none of 3 replies is usable
\* (exception, malformed text, missing keys, empty roster, in any mix) it
\* returns the hardcoded fallback; once it has returned it calls no more.
\* The loop run step by step agrees with generate_scenario as start_game
\* calls it.
C13_GenerateTerminates ==
    /\ <>(gen_out # None)
    /\ [](gen_calls <= 3)
    /\ [](gen_out # None =>
            /\ IF UsableUpTo(3) # {}
               THEN /\ UsableUpTo(gen_calls - 1) = {}
                    /\ Usable(gen_in[gen_calls])
                    /\ gen_out[1].npcs = gen_in[gen_calls].npcs
               ELSE /\ gen_calls = 3
                    /\ gen_out[1] = DEFAULT_SCENARIO
            /\ generate_scenario(gen_in) = [scenario |-> gen_out[1], calls |-> gen_calls])
    /\ [][gen_out # None => (gen_calls' = gen_calls /\ gen_out' = gen_out)]_vars

\* Three failures of three kinds, then the fallback.
C13_Witness ==
    /\ gen_out = Some(DEFAULT_SCENARIO)
    /\ gen_calls = 3
    /\ gen_in[1].kind = "exception"
    /\ gen_in[2].kind = "malformed"
    /\ gen_in[3].kind = "json"
    /\ gen_in[3].has_keys
    /\ gen_in[3].npcs = <<>>

\* An ask on session s, naming an NPC of its roster, whose evaluation call
\* the collaborator answers with eval_reply.
AskWith(session_id, eval_reply) ==
    /\ response'.op = "ask"
    /\ response'.session_id = session_id
    /\ \E npc_name \in Roster(session_id), question \in Questions,
          npc_reply \in TextReplies, db_ok \in BOOLEAN :
          ask_question(session_id, npc_name, question, eval_reply, npc_reply, db_ok)

\* C14: whatever the collaborator replies to the evaluation call (a score in
\* range, out of range, missing, not a number, NaN, malformed text, an
\* exception), the ask is answered and the score it reports and stores is in
\* 1..100: a score in range unchanged, one below 1 as 1, one above 100 as
\* 100, a missing score or any failure as 50; and every non-hint record of
\* every session has quality_score in 1..100.
C14_QualityClamped ==
    /\ [](\A s \in DOMAIN games : \A i \in 1..Len(games[s].questions) :
             games[s].questions[i].npc_name # "SYSTEM"
                => games[s].questions[i].quality_score \in 1..100)
    /\ [][\A s \in DOMAIN games : \A reply \in EvalReplies :
             (~games[s].is_finished /\ Len(games[s].questions) < MAX_QUESTIONS
                 /\ AskWith(s, reply))
             => LET records == games'[s].questions
                    stored  == records[Len(records)].quality_score
                IN  /\ response'.success
                    /\ Len(records) = Len(games[s].questions) + 1
                    /\ response'.quality_score = Some(stored)
                    /\ stored \in 1..100
                    /\ (reply.kind = "number" /\ reply.score \in 1..100)
                          => stored = reply.score
                    /\ (reply.kind = "number" /\ reply.score < 1) => stored = 1
                    /\ (reply.kind = "number" /\ reply.score > 100) => stored = 100
                    /\ reply.kind \in {"no_score", "non_number", "malformed", "exception"}
                          => stored = 50]_vars

\* A session holding a clamped score (1 or 100) and the fallback score.
C14_Witness ==
    \E s \in DOMAIN games :
       /\ Len(games[s].questions) = 2
       /\ games[s].questions[1].quality_score \in {1, 100}
       /\ games[s].questions[1].npc_name # "SYSTEM"
       /\ games[s].questions[2].quality_score = 50
       /\ games[s].questions[2].reasoning = "fallback"

\* C15: any two live sessions created under the same date key are bound to
\* the same scenario (same culprit, same roster), in every interleaving of
\* the requests that create them and whether or not the scenario was saved.
C15_SameDateSameScenario ==
    \A s1 \in DOMAIN games : \A s2 \in DOMAIN games :
       games[s1].scenario_date = games[s2].scenario_date
          => /\ games[s1].scenario = games[s2].scenario
             /\ games[s1].culprit = games[s2].culprit
             /\ games[s1].npcs = games[s2].npcs

\* The accusations that have finished session s.
FinishedBy(s) ==
    {t \in DOMAIN pending :
        /\ pending[t].op = "accuse"
        /\ pending[t].session_id = s
        /\ pending[t].outcome = "finished"}

\* C16: of two concurrent accusations naming the culprit of the same active
\* session at most one finishes it (sets end_time and final_score, writes the
\* finish row, is answered with the score); the other is rejected.
C16_AtMostOneFinish ==
    \A s \in issued : Cardinality(FinishedBy(s)) <= 1

\* C17: the cleanup pass takes a session out of games only if the session
\* is finished and more than 3600 s have passed since its end_time; an
\* active session, and a finished one within the window, stays.
C17_CleanupEvictsOnlyExpired ==
    [][\A s \in DOMAIN games :
          s \notin DOMAIN games'
             => /\ games[s].is_finished
                /\ games[s].end_time # None
                /\ (now - games[s].end_time[1]) > 3600]_vars

\* The response is the one to an accepted accusation naming the culprit.
IsSolvedReply(r) ==
    /\ r.op = "accuse"
    /\ r.success
    /\ r.is_correct = Some(TRUE)
    /\ r.session_id \in DOMAIN games
    /\ games[r.session_id].is_finished
    /\ r.culprit = Some(games[r.session_id].culprit)

\* C18: no response (to start, ask, hint, accuse, game-state read, accepted
\* or rejected) carries an NPC's secret, and none carries the culprit except
\* the response to the accepted accusation naming the culprit.
C18_NoLeakBeforeSolved ==
    /\ "npcs.secret" \notin response.exposes
    /\ ("culprit" \in response.exposes \/ response.culprit # None)
          => IsSolvedReply(response)
    /\ response.op \in {"start", "ask", "hint", "state"} => response.culprit = None
    /\ (response.op = "accuse" /\ response.is_correct # Some(TRUE))
          => response.culprit = None

\* The state of a session with records is read before it is solved.
C18_Witness ==
    /\ response.op = "state"
    /\ response.success
    /\ response.session_id \in DOMAIN games
    /\ ~games[response.session_id].is_finished
    /\ response.total_questions = Some(2)
    /\ response.exposes = game_state_fields

\* C19: between requests, a live session has final_score iff it is finished
\* iff it has end_time; a session becomes finished only by an accepted
\* accusation naming its culprit; and a session enters games unfinished,
\* with hints_used = 0, no questions, no end_time and no final_score.
C19_FinishedConsistency ==
    /\ [](\A s \in DOMAIN games :
             /\ (games[s].final_score # None) <=> games[s].is_finished
             /\ games[s].is_finished <=> (games[s].end_time # None))
    /\ [][\A s \in DOMAIN games' :
             IF s \in DOMAIN games
             THEN (games'[s].is_finished /\ ~games[s].is_finished)
                     => /\ AccuseNamed(s, games[s].culprit)
                        /\ response'.success
                        /\ response'.is_correct = Some(TRUE)
             ELSE /\ ~games'[s].is_finished
                  /\ games'[s].hints_used = 0
                  /\ games'[s].questions = <<>>
                  /\ games'[s].end_time = None
                  /\ games'[s].final_score = None]_vars

\* A session finished at a later time than it was started.
C19_Witness ==
    \E s \in DOMAIN games :
       /\ games[s].is_finished
       /\ games[s].final_score # None
       /\ games[s].end_time # None
       /\ games[s].end_time[1] > games[s].start_time
       /\ response.op = "accuse"
       /\ response.is_correct = Some(TRUE)

\* A hint request on session s that the collaborator answers.
HintAnswered(session_id) ==
    /\ response'.op = "hint"
    /\ response'.session_id = session_id
    /\ get_hint(session_id, "text")

\* C20: a hint requested on a finished session with hints_used < MAX_HINTS
\* is accepted: it appends one SYSTEM record of quality 0 and increments
\* hints_used; is_finished, end_time and final_score stay as they were, so
\* final_score then describes fewer records than questions holds.
C20_HintAfterFinish ==
    [][\A s \in DOMAIN games :
          (games[s].is_finished /\ games[s].hints_used < MAX_HINTS /\ HintAnswered(s))
          => LET before == games[s]
                 after  == games'[s]
                 last   == after.questions[Len(after.questions)]
             IN  /\ response'.success
                 /\ Len(after.questions) = Len(before.questions) + 1
                 /\ SubSeq(after.questions, 1, Len(before.questions)) = before.questions
                 /\ last.npc_name = "SYSTEM"
                 /\ last.quality_score = 0
                 /\ after.hints_used = before.hints_used + 1
                 /\ after.is_finished
                 /\ after.end_time = before.end_time
                 /\ after.final_score = before.final_score
                 /\ after.final_score[1].question_count < Len(after.questions)]_vars

\* A finished session scored on one record and holding two.
C20_Witness ==
    \E s \in DOMAIN games :
       /\ games[s].is_finished
       /\ games[s].final_score[1].question_count = 1
       /\ Len(games[s].questions) = 2
       /\ games[s].questions[2].npc_name = "SYSTEM"
       /\ response.op = "hint"
       /\ response.success

\* An ask on session s, naming an NPC of its roster, whose two collaborator
\* calls are answered with eval_reply and npc_reply.
AskOutcome(session_id, eval_reply, npc_reply) ==
    /\ response'.op = "ask"
    /\ response'.session_id = session_id
    /\ \E npc_name \in Roster(session_id), question \in Questions, db_ok \in BOOLEAN :
          ask_question(session_id, npc_name, question, eval_reply, npc_reply, db_ok)

HintFailedOn(session_id) ==
    /\ response'.op = "hint"
    /\ response'.session_id = session_id
    /\ get_hint(session_id, "exception")

\* C28: when the collaborator call of a hint request fails, the request ends
\* in an error and the session is left as it was: hints_used and questions
\* unchanged, no record appended, no apology served in place of the hint.
C28_FailedHintConsumesNothing ==
    [][\A s \in DOMAIN games :
          (~hint_limit_reached(games[s]) /\ HintFailedOn(s))
          => /\ ~response'.success
             /\ response'.status = 500
             /\ response'.answer = None
             /\ response'.hints_remaining = None
             /\ games' = games]_vars

\* A hint request on a session with hints left was answered with the error.
C28_Witness ==
    /\ response.op = "hint"
    /\ response.status = 500
    /\ response.error = "hint_error"
    /\ response.session_id \in DOMAIN games
    /\ games[response.session_id].hints_used < MAX_HINTS
    /\ games[response.session_id].hints_used > 0

\* C23: a finished session whose end_time is missing is never evicted, in
\* any interleaving: whatever step is taken, such a session is still in
\* games after it.
C23_UnstampedSessionKept ==
    [][\A s \in DOMAIN games :
          (games[s].is_finished /\ games[s].end_time = None)
             => s \in DOMAIN games']_vars

\* A /start that draws session_id and meets the database outcomes db.
StartWith(session_id, db) ==
    /\ response'.op = "start"
    /\ response'.session_id = session_id
    /\ start_game(session_id, AllFail, db)

\* An /ask on session_id whose database write has the outcome db_ok.
AskStoredWith(session_id, db_ok) ==
    /\ response'.op = "ask"
    /\ response'.session_id = session_id
    /\ \E npc_name \in Roster(session_id), question \in Questions :
          ask_question(session_id, npc_name, question,
                       EvalReply("number", 80), "text", db_ok)

\* An /accuse of the culprit on session_id whose database write has the
\* outcome db_ok.
AccuseStoredWith(session_id, db_ok) ==
    /\ response'.op = "accuse"
    /\ response'.session_id = session_id
    /\ accuse_culprit(session_id, games[session_id].culprit, db_ok)

\* C22: a persistence failure never fails or rolls back an in-memory
\* transition: create, ask and the correct accusation give the same session
\* state and the same outcome to the caller whether the scenario lookup,
\* the scenario save, the session insert, the question insert and the
\* finish update succeed or fail.
C22_PersistenceNeverFailsTransition ==
    [][/\ \A session_id \in RaceSessionIds : \A db \in DbFlags :
             StartWith(session_id, db)
             => /\ response'.success
                /\ response'.status = 200
                /\ session_id \in DOMAIN games'
                /\ ~games'[session_id].is_finished
                /\ games'[session_id].questions = <<>>
                /\ games'[session_id].scenario = DEFAULT_SCENARIO
       /\ \A s \in DOMAIN games : \A db_ok \in BOOLEAN :
             (~games[s].is_finished /\ AskStoredWith(s, db_ok))
             => /\ response'.success
                /\ response'.quality_score = Some(80)
                /\ Len(games'[s].questions) = Len(games[s].questions) + 1
       /\ \A s \in DOMAIN games : \A db_ok \in BOOLEAN :
             (~games[s].is_finished /\ games[s].questions # <<>>
                 /\ AccuseStoredWith(s, db_ok))
             => /\ response'.success
                /\ response'.is_correct = Some(TRUE)
                /\ games'[s].is_finished
                /\ games'[s].end_time = Some(now)
                /\ games'[s].final_score = response'.score]_vars

\* C29: the scenario_date a session records, in games and in its row of
\* the sessions table, is the date key under which its scenario was looked
\* up or saved, also when the calendar day changes between the lookup and
\* the recording of the date.
C29_ScenarioDateIsLookupKey ==
    [][\A t \in Threads :
          (At(t, "start", "create") /\ t \notin DOMAIN pending')
          => LET session_id == pending[t].session_id
             IN  /\ session_id \in DOMAIN games'
                 /\ games'[session_id].scenario_date = pending[t].today
                 /\ session_id \in DOMAIN db_sessions'
                       => db_sessions'[session_id].scenario_date = pending[t].today]_vars

\* C25: under concurrent ask and hint requests on one session the bounds
\* hold in every interleaving: hints_used never exceeds MAX_HINTS, the
\* number of non-hint records never exceeds MAX_QUESTIONS, and a session
\* that is finished gains no record from an ask that was in flight when the
\* accusation finished it.
C25_BoundsUnderConcurrency ==
    [][\A s \in DOMAIN games' :
          /\ games'[s].hints_used <= MAX_HINTS
          /\ NonHintCount(games'[s].questions) <= MAX_QUESTIONS
          /\ (s \in DOMAIN games /\ games[s].is_finished)
                => NonHintCount(games'[s].questions) = NonHintCount(games[s].questions)]_vars

\* The timestamps of a sequence of records never go back.
TimestampsOrdered(questions) ==
    \A i \in 1..Len(questions) : \A j \in 1..Len(questions) :
       i <= j => questions[i].timestamp <= questions[j].timestamp

\* C27: the questions of a session are append-only and ordered: every step
\* leaves the sequence as it is or extends it by one record at the end,
\* no record is modified, reordered or removed, and the timestamps are
\* non-decreasing along the sequence.
C27_AppendOnlyOrdered ==
    [][\A s \in DOMAIN games :
          s \in DOMAIN games'
          => /\ \/ games'[s].questions = games[s].questions
                \/ /\ Len(games'[s].questions) = Len(games[s].questions) + 1
                   /\ SubSeq(games'[s].questions, 1, Len(games[s].questions))
                         = games[s].questions
             /\ TimestampsOrdered(games'[s].questions)]_vars

\* C24: every cleanup run, whether it completes or raises, schedules
\* exactly one next run after the cleanup interval: between runs exactly one
\* Timer is armed, with the delay GAME_CLEANUP_INTERVAL, during a run none
\* is; and a run begins again and again, for ever.
C24_CleanupRunsForever ==
    /\ [](/\ TimerThread \in DOMAIN pending
          /\ pending[TimerThread].timers
                = (IF pending[TimerThread].pc = "armed" THEN 1 ELSE 0)
          /\ pending[TimerThread].delay = 600)
    /\ []<>(pending[TimerThread].pc = "scan")
    /\ []<>(pending[TimerThread].pc = "armed")

\* A run that raised has armed the next Timer.
C24_Witness ==
    /\ pending[TimerThread].pc = "armed"
    /\ pending[TimerThread].failed
    /\ pending[TimerThread].timers = 1

\* C26: a cleanup pass running next to session creation completes: it
\* reaches the scheduling of the next run only through its evictions and
\* its deletions of persisted rows, never by aborting the scan.
C26_CleanupPassCompletes ==
    [][(pending'[TimerThread].pc = "schedule" /\ pending[TimerThread].pc # "schedule")
          => /\ pending[TimerThread].pc = "rows"
             /\ ~pending'[TimerThread].failed]_vars

====
